---- MODULE Spec2Model ----
(***************************************************************************)
(* Model of the ecosystem registry CLI: the maintenance commands of        *)
(* ecosystem/manager.py (update_badges, update_stars,                      *)
(* add_results_from_artifacts, list_repos_for_testing) and the issue       *)
(* parser of ecosystem/utils/submission_parser.py.                         *)
(*                                                                         *)
(* One behaviour is one CLI invocation: Init fixes the command, the store  *)
(* content and the command's input; the actions are the steps of the       *)
(* command's loop.  Strings are sequences of tokens; the separators the    *)
(* code splits and strips on ("/", ",", " ", "\n", "### ") are tokens of   *)
(* their own, every other token is an opaque run of characters.            *)
(***************************************************************************)
EXTENDS Integers, Sequences, FiniteSets, TLC

\* ------------------------------------------------------------------------
\* Bounds
\* ------------------------------------------------------------------------
MaxRepos == 3
MaxTests == 2
MaxArtifacts == 3
MaxForms == 3
MaxSections == 3

\* ------------------------------------------------------------------------
\* Python values
\* ------------------------------------------------------------------------
None == [kind |-> "none"]
IntVal(n) == [kind |-> "int", v |-> n]
StrVal(s) == [kind |-> "str", v |-> s]
ListVal(l) == [kind |-> "list", v |-> l]

NoError == "ok"

SP == " "
NL == "\n"
SLASH == "/"
COMMA == ","
H3 == "### "
Whitespace == {SP, NL}

\* all sequences over S of length at most n
SeqsUpTo(S, n) == UNION {[1..k -> S] : k \in 0..n}

\* ------------------------------------------------------------------------
\* str.split(sep), str.strip(), sep.join(list), list[a:b]
\* ------------------------------------------------------------------------
Split(s, sep) ==
  LET RECURSIVE go(_, _, _)
      go(i, cur, acc) ==
        IF i > Len(s) THEN Append(acc, cur)
        ELSE IF s[i] = sep THEN go(i + 1, <<>>, Append(acc, cur))
        ELSE go(i + 1, Append(cur, s[i]), acc)
  IN go(1, <<>>, <<>>)

RECURSIVE LStrip(_)
LStrip(s) == IF s # <<>> /\ Head(s) \in Whitespace THEN LStrip(Tail(s)) ELSE s

RECURSIVE RStrip(_)
RStrip(s) ==
  IF s # <<>> /\ s[Len(s)] \in Whitespace
  THEN RStrip(SubSeq(s, 1, Len(s) - 1)) ELSE s

Strip(s) == RStrip(LStrip(s))

RECURSIVE Join(_, _)
Join(sep, l) ==
  IF l = <<>> THEN <<>>
  ELSE IF Len(l) = 1 THEN l[1]
  ELSE l[1] \o <<sep>> \o Join(sep, Tail(l))

PySlice(l, a, b) ==
  SubSeq(l, a + 1, IF b < Len(l) THEN b ELSE Len(l))

\* list[-k]
FromEnd(l, k) == l[Len(l) - k + 1]

\* ------------------------------------------------------------------------
\* Tiers, records, the store
\* ------------------------------------------------------------------------
TierAll == <<"Main", "Community">>
TierSet == {TierAll[i] : i \in 1..Len(TierAll)}
TierIndex(t) == CHOOSE i \in 1..Len(TierAll) : TierAll[i] = t

Owners == {"x"}
Repos == {"foo", "bar"}

MkUrl(o, r, slash) ==
  <<"https:", SLASH, SLASH, "github.com", SLASH, o, SLASH, r>>
    \o (IF slash THEN <<SLASH>> ELSE <<>>)

Urls == {MkUrl(o, r, s) : o \in Owners, r \in Repos, s \in BOOLEAN}

TestResults ==
  { [test_type |-> "standard", passed |-> TRUE],
    [test_type |-> "standard", passed |-> FALSE],
    [test_type |-> "other", passed |-> FALSE] }

Repository(url, name, tier, stars, skip, tests) ==
  [url |-> url, name |-> name, tier |-> tier, stars |-> stars,
   skip_tests |-> skip, tests_results |-> tests]

\* sequences of at most MaxRepos distinct urls: the store's keys
UrlSeqs(U) ==
  {us \in SeqsUpTo(U, MaxRepos) :
     \A i, j \in 1..Len(us) : i # j => us[i] # us[j]}

IndexOfUrl(s, url) == CHOOSE i \in 1..Len(s) : s[i].url = url
HasUrl(s, url) == \E i \in 1..Len(s) : s[i].url = url

\* DAO
storage_read(s) == s

get_repos_by_tier(s, tier) == SelectSeq(s, LAMBDA r : r.tier = tier)

dao_update(s, url, stars) ==
  [i \in 1..Len(s) |->
     IF s[i].url = url THEN [s[i] EXCEPT !.stars = stars] ELSE s[i]]

add_repo_test_result(s, url, test_result) ==
  [i \in 1..Len(s) |->
     IF s[i].url = url
     THEN [s[i] EXCEPT !.tests_results = Append(@, test_result)]
     ELSE s[i]]

\* ------------------------------------------------------------------------
\* State
\* ------------------------------------------------------------------------
VARIABLES
  cmd,            \* the CLI command of this invocation
  pc,             \* position in the command
  err,            \* exception raised out of the command, NoError if none
  store,          \* dao.storage: records in insertion order
  store0,         \* the store as it was when the command started
  tier_idx,       \* position of `for tier in Tier.all()`
  projects,       \* dao.get_repos_by_tier(tier) of the current tier
  proj_idx,       \* position of `for project in ...` / `for repo in ...`
  requests_log,   \* requests.get calls made so far and their responses
  warned,         \* urls logged by logger.warning
  badges,         \* files of the badges folder, by file name
  artifacts,      \* Path(path).rglob('*.json') in discovery order
  art_idx,        \* position of `for artifact in ...`
  repo_names,     \* list_repos_for_testing: the accumulator
  output,         \* list_repos_for_testing: the returned JSON string
  template,       \* issue_template["body"]: the forms of submission.yml
  submitted,      \* the answers the issue form was filled in with
  issue_formatted, \* mdformat.text(body_of_issue)
  sections,       \* parse_submission_issue: title -> cleaned section
  args,           \* parse_submission_issue: field id -> value
  record          \* the Repository built from args

vars == <<cmd, pc, err, store, store0, tier_idx, projects, proj_idx,
          requests_log, warned, badges, artifacts, art_idx, repo_names,
          output, template, submitted, issue_formatted, sections, args,
          record>>

batchVars == <<tier_idx, projects, proj_idx, requests_log, warned, badges>>
artVars == <<artifacts, art_idx>>
listVars == <<repo_names, output>>
parseVars == <<template, submitted, issue_formatted, sections, args, record>>

IdleBatch ==
  /\ tier_idx = 1 /\ projects = <<>> /\ proj_idx = 1
  /\ requests_log = <<>> /\ warned = {} /\ badges = {}
IdleArt == artifacts = <<>> /\ art_idx = 1
IdleList == repo_names = <<>> /\ output = <<>>
IdleParse ==
  /\ template = <<>> /\ submitted = <<>> /\ issue_formatted = <<>>
  /\ sections = <<>> /\ args = <<>> /\ record = None

\* ------------------------------------------------------------------------
\* update_stars
\* ------------------------------------------------------------------------
InitialStars == {None, IntVal(3)}
StarCounts == {7}

\* project.url[:-1] if project.url[-1] == "/" else project.url
StripSlash(url) ==
  IF url[Len(url)] = SLASH THEN SubSeq(url, 1, Len(url) - 1) ELSE url

InitStars ==
  /\ cmd = "update_stars" /\ pc = "tier" /\ err = NoError
  /\ \E us \in UrlSeqs(Urls) :
       \E ts \in [1..Len(us) -> TierSet], ss \in [1..Len(us) -> InitialStars] :
         store = [i \in 1..Len(us) |->
                    Repository(us[i], FromEnd(StripSlash(us[i]), 1), ts[i], ss[i],
                               FALSE, <<>>)]
  /\ store0 = store
  /\ IdleBatch /\ IdleArt /\ IdleList /\ IdleParse

StarsRequest(project) ==
  LET url == StripSlash(project.url)
      url_chunks == Split(url, SLASH)
      repo == FromEnd(url_chunks, 1)
      user == FromEnd(url_chunks, 2)
  IN [user |-> user, repo |-> repo]

\* keyed by the slash-stripped url the owner and repo were derived from
update_stars_key_stripped(project) == StripSlash(project.url)

update_stars_key(project) == project.url

\* the tier filter forgotten: every tier walks the whole store
update_stars_tier_unfiltered ==
  /\ cmd = "update_stars" /\ pc = "tier" /\ tier_idx <= Len(TierAll)
  /\ projects' = storage_read(store)
  /\ proj_idx' = 1
  /\ pc' = "project"
  /\ UNCHANGED <<cmd, err, store, store0, tier_idx, requests_log, warned,
                 badges, artVars, listVars, parseVars>>

update_stars_tier ==
  /\ cmd = "update_stars" /\ pc = "tier" /\ tier_idx <= Len(TierAll)
  /\ projects' = get_repos_by_tier(store, TierAll[tier_idx])
  /\ proj_idx' = 1
  /\ pc' = "project"
  /\ UNCHANGED <<cmd, err, store, store0, tier_idx, requests_log, warned,
                 badges, artVars, listVars, parseVars>>

update_stars_next_tier ==
  /\ cmd = "update_stars" /\ pc = "project" /\ proj_idx > Len(projects)
  /\ tier_idx' = tier_idx + 1
  /\ pc' = "tier"
  /\ UNCHANGED <<cmd, err, store, store0, projects, proj_idx, requests_log,
                 warned, badges, artVars, listVars, parseVars>>

\* response.raise_for_status() in place of the `continue`
update_stars_bad_response_raises ==
  /\ cmd = "update_stars" /\ pc = "project" /\ proj_idx <= Len(projects)
  /\ LET project == projects[proj_idx]
     IN requests_log' = Append(requests_log,
          [url |-> project.url, request |-> StarsRequest(project),
           ok |-> FALSE, content |-> None])
  /\ err' = "HTTPError"
  /\ pc' = "done"
  /\ UNCHANGED <<cmd, store, store0, tier_idx, projects, proj_idx, warned,
                 badges, artVars, listVars, parseVars>>

update_stars_bad_response ==
  /\ cmd = "update_stars" /\ pc = "project" /\ proj_idx <= Len(projects)
  /\ LET project == projects[proj_idx]
     IN /\ requests_log' = Append(requests_log,
             [url |-> project.url, request |-> StarsRequest(project),
              ok |-> FALSE, content |-> None])
        /\ warned' = warned \cup {project.url}
  /\ proj_idx' = proj_idx + 1
  /\ UNCHANGED <<cmd, pc, err, store, store0, tier_idx, projects, badges,
                 artVars, listVars, parseVars>>

update_stars_ok_response ==
  /\ cmd = "update_stars" /\ pc = "project" /\ proj_idx <= Len(projects)
  /\ \E count \in StarCounts :
       LET project == projects[proj_idx]
           stars == IntVal(count)
           key == update_stars_key(project)
       IN /\ requests_log' = Append(requests_log,
               [url |-> project.url, request |-> StarsRequest(project),
                ok |-> TRUE, content |-> stars])
          /\ IF HasUrl(store, key)
             THEN /\ store' = dao_update(store, key, stars)
                  /\ proj_idx' = proj_idx + 1
                  /\ UNCHANGED <<pc, err>>
             ELSE /\ err' = "KeyError" /\ pc' = "done"
                  /\ UNCHANGED <<store, proj_idx>>
  /\ UNCHANGED <<cmd, store0, tier_idx, projects, warned, badges,
                 artVars, listVars, parseVars>>

update_stars_return ==
  /\ cmd = "update_stars" /\ pc = "tier" /\ tier_idx > Len(TierAll)
  /\ pc' = "done"
  /\ UNCHANGED <<cmd, err, store, store0, batchVars, artVars, listVars, parseVars>>

\* ------------------------------------------------------------------------
\* update_badges
\* ------------------------------------------------------------------------
PlainUrls == {MkUrl(o, r, FALSE) : o \in Owners, r \in Repos}
TestSeqs == SeqsUpTo(TestResults, MaxTests)

InitBadges ==
  /\ cmd = "update_badges" /\ pc = "tier" /\ err = NoError
  /\ \E us \in UrlSeqs(PlainUrls) :
       \E ts \in [1..Len(us) -> TierSet], rs \in [1..Len(us) -> TestSeqs] :
         store = [i \in 1..Len(us) |->
                    Repository(us[i], FromEnd(us[i], 1), ts[i], None,
                               FALSE, rs[i])]
  /\ store0 = store
  /\ IdleBatch /\ IdleArt /\ IdleList /\ IdleParse

\* latest standard result wins
RECURSIVE tests_passed_latest(_, _)
tests_passed_latest(results, flag) ==
  IF results = <<>> THEN flag
  ELSE LET type_test == Head(results)
       IN tests_passed_latest(Tail(results),
            IF type_test.test_type = "standard"
            THEN type_test.passed ELSE flag)

\* the inner loop over project.tests_results, from tests_passed = flag
RECURSIVE tests_passed_loop(_, _)
tests_passed_loop(results, flag) ==
  IF results = <<>> THEN flag
  ELSE LET type_test == Head(results)
       IN tests_passed_loop(Tail(results),
            IF type_test.test_type = "standard" /\ ~type_test.passed
            THEN FALSE ELSE flag)

BadgeRequest(project, tier) ==
  LET tests_passed == tests_passed_loop(project.tests_results, TRUE)
      color == IF tests_passed THEN "blueviolet" ELSE "gray"
  IN [label |-> project.name, message |-> tier, color |-> color]

\* the body of the shields.io response to `request`
ShieldsContent(request, ok) ==
  IF ok THEN [kind |-> "svg", badge |-> request] ELSE [kind |-> "error"]

WriteFile(files, name, content) ==
  {f \in files : f.file # name} \cup {[file |-> name, content |-> content]}

update_badges_tier ==
  /\ cmd = "update_badges" /\ pc = "tier" /\ tier_idx <= Len(TierAll)
  /\ projects' = get_repos_by_tier(store, TierAll[tier_idx])
  /\ proj_idx' = 1
  /\ pc' = "project"
  /\ UNCHANGED <<cmd, err, store, store0, tier_idx, requests_log, warned,
                 badges, artVars, listVars, parseVars>>

update_badges_next_tier ==
  /\ cmd = "update_badges" /\ pc = "project" /\ proj_idx > Len(projects)
  /\ tier_idx' = tier_idx + 1
  /\ pc' = "tier"
  /\ UNCHANGED <<cmd, err, store, store0, projects, proj_idx, requests_log,
                 warned, badges, artVars, listVars, parseVars>>

update_badges_project ==
  /\ cmd = "update_badges" /\ pc = "project" /\ proj_idx <= Len(projects)
  /\ \E ok \in BOOLEAN :
       LET project == projects[proj_idx]
           request == BadgeRequest(project, TierAll[tier_idx])
           content == ShieldsContent(request, ok)
       IN /\ requests_log' = Append(requests_log,
               [url |-> project.url, request |-> request, ok |-> ok,
                content |-> content])
          /\ badges' = WriteFile(badges, project.name, content)
  /\ proj_idx' = proj_idx + 1
  /\ UNCHANGED <<cmd, pc, err, store, store0, tier_idx, projects, warned,
                 artVars, listVars, parseVars>>

update_badges_return ==
  /\ cmd = "update_badges" /\ pc = "tier" /\ tier_idx > Len(TierAll)
  /\ pc' = "done"
  /\ UNCHANGED <<cmd, err, store, store0, batchVars, artVars, listVars, parseVars>>

\* ------------------------------------------------------------------------
\* add_results_from_artifacts
\* ------------------------------------------------------------------------
Malformed == [kind |-> "malformed"]
Artifact(repo_name, test_json) ==
  [kind |-> "json", repo_name |-> repo_name, test_json |-> test_json]

\* "/".join(url.split("/")[3:5]): the name the test workflow reports back
RepoName(url) == Join(SLASH, PySlice(Split(url, SLASH), 3, 5))

ArtifactsFor(s) ==
  {Malformed} \cup
  {Artifact(RepoName(s[i].url), t) : i \in 1..Len(s), t \in TestResults}

EarlierResults == {<<>>, <<[test_type |-> "other", passed |-> FALSE]>>}

InitArtifacts ==
  /\ cmd = "add_results_from_artifacts" /\ pc = "artifact" /\ err = NoError
  /\ \E us \in UrlSeqs(PlainUrls) :
       \E rs \in [1..Len(us) -> EarlierResults] :
         store = [i \in 1..Len(us) |->
                    Repository(us[i], FromEnd(us[i], 1), "Community", None,
                               FALSE, rs[i])]
  /\ store0 = store
  /\ artifacts \in SeqsUpTo(ArtifactsFor(store), MaxArtifacts)
  /\ art_idx = 1
  /\ IdleBatch /\ IdleList /\ IdleParse

ArtifactUrl(repo_name) ==
  <<"https:", SLASH, SLASH, "github.com", SLASH>> \o repo_name

TestResult_from_dict(test_json) == test_json

add_results_malformed ==
  /\ cmd = "add_results_from_artifacts" /\ pc = "artifact"
  /\ art_idx <= Len(artifacts)
  /\ artifacts[art_idx].kind = "malformed"
  /\ err' = "JSONDecodeError"
  /\ pc' = "done"
  /\ UNCHANGED <<cmd, store, store0, batchVars, artVars, listVars, parseVars>>

add_results_artifact ==
  /\ cmd = "add_results_from_artifacts" /\ pc = "artifact"
  /\ art_idx <= Len(artifacts)
  /\ artifacts[art_idx].kind = "json"
  /\ LET test_json == artifacts[art_idx]
         repo_url == ArtifactUrl(test_json.repo_name)
         test_result == TestResult_from_dict(test_json.test_json)
     IN store' = add_repo_test_result(store, repo_url, test_result)
  /\ art_idx' = art_idx + 1
  /\ UNCHANGED <<cmd, pc, err, store0, batchVars, artifacts, listVars, parseVars>>

add_results_return ==
  /\ cmd = "add_results_from_artifacts" /\ pc = "artifact"
  /\ art_idx > Len(artifacts)
  /\ pc' = "done"
  /\ UNCHANGED <<cmd, err, store, store0, batchVars, artVars, listVars, parseVars>>

\* ------------------------------------------------------------------------
\* list_repos_for_testing
\* ------------------------------------------------------------------------
InitList ==
  /\ cmd = "list_repos_for_testing" /\ pc = "repo" /\ err = NoError
  /\ \E us \in UrlSeqs(Urls) :
       \E ks \in [1..Len(us) -> BOOLEAN] :
         store = [i \in 1..Len(us) |->
                    Repository(us[i], FromEnd(StripSlash(us[i]), 1),
                               "Community", None, ks[i], <<>>)]
  /\ store0 = store
  /\ IdleBatch /\ IdleArt /\ IdleList /\ IdleParse

list_repos_name(repo) == Join(SLASH, PySlice(Split(repo.url, SLASH), 3, 5))

\* the `not` dropped
list_repos_tested_inverted(repo) == repo.skip_tests

list_repos_tested(repo) == ~repo.skip_tests

\* json.dumps of a list of strings
json_dumps(l) ==
  <<"[">> \o Join(", ", [i \in 1..Len(l) |-> <<"\"">> \o l[i] \o <<"\"">>])
    \o <<"]">>

list_repos_repo ==
  /\ cmd = "list_repos_for_testing" /\ pc = "repo"
  /\ proj_idx <= Len(storage_read(store))
  /\ LET repo == storage_read(store)[proj_idx]
     IN repo_names' = IF list_repos_tested(repo)
                      THEN Append(repo_names, list_repos_name(repo))
                      ELSE repo_names
  /\ proj_idx' = proj_idx + 1
  /\ UNCHANGED <<cmd, pc, err, store, store0, tier_idx, projects,
                 requests_log, warned, badges, artVars, output, parseVars>>

list_repos_return ==
  /\ cmd = "list_repos_for_testing" /\ pc = "repo"
  /\ proj_idx > Len(storage_read(store))
  /\ output' = json_dumps(repo_names)
  /\ pc' = "done"
  /\ UNCHANGED <<cmd, err, store, store0, batchVars, artVars, repo_names, parseVars>>

\* ------------------------------------------------------------------------
\* Python dicts: key/value entries in insertion order, keys unique
\* ------------------------------------------------------------------------
DictHas(d, k) == \E i \in 1..Len(d) : d[i].key = k
DictGet(d, k) == d[CHOOSE i \in 1..Len(d) : d[i].key = k].value
DictSet(d, k, v) ==
  IF DictHas(d, k)
  THEN [i \in 1..Len(d) |->
          IF d[i].key = k THEN [key |-> k, value |-> v] ELSE d[i]]
  ELSE Append(d, [key |-> k, value |-> v])

\* dict(pairs) and {k: v for ...}: a later entry of a key overwrites
RECURSIVE DictFromPairs(_)
DictFromPairs(pairs) ==
  IF pairs = <<>> THEN <<>>
  ELSE LET last == pairs[Len(pairs)]
       IN DictSet(DictFromPairs(SubSeq(pairs, 1, Len(pairs) - 1)),
                  last.key, last.value)

\* ------------------------------------------------------------------------
\* parse_submission_issue (Manager.parser_issue)
\* ------------------------------------------------------------------------
Sentinel == <<"_No response_">>

Markdown == [type |-> "markdown"]
Field(label, id) == [type |-> "input", label |-> label, id |-> id]
Forms ==
  { Markdown,
    Field(<<"Name">>, "name"),
    Field(<<"Repository">>, "url"),
    Field(<<"Labels">>, "labels"),
    Field(<<"Labels">>, "website"),
    [type |-> "input", id |-> "licence"] }

Templates == SeqsUpTo(Forms, MaxForms)

\* the template of the repository, and the one of the end-to-end example
ReferenceTemplates ==
  { <<Markdown, Field(<<"Name">>, "name"), Field(<<"Repository">>, "url"),
      Field(<<"Labels">>, "labels")>>,
    <<Field(<<"Name">>, "name"), Field(<<"Repository">>, "url")>> }

Titles == {<<"Name">>, <<"Repository">>, <<"Labels">>}

\* what follows the title in a section of the issue, and the answer it holds
Bodies ==
  { [raw |-> <<NL>>, answer |-> <<>>],
    [raw |-> <<NL, NL, "_No response_", NL, NL>>, answer |-> Sentinel],
    [raw |-> <<NL, NL, SP, "_No response_", SP, NL, NL>>,
     answer |-> Sentinel],
    [raw |-> <<NL, NL, "Foo", NL, "Bar", NL, NL>>,
     answer |-> <<"Foo", SP, "Bar">>],
    [raw |-> <<NL, NL, "a", COMMA, SP, "b", SP, COMMA, COMMA, "c", NL, NL>>,
     answer |-> <<"a", COMMA, SP, "b", SP, COMMA, COMMA, "c">>] }

Answers == {[title |-> t, body |-> b] : t \in Titles, b \in Bodies}
Submissions == SeqsUpTo(Answers, MaxSections)

RECURSIVE IssueText(_)
IssueText(answers) ==
  IF answers = <<>> THEN <<>>
  ELSE <<H3>> \o Head(answers).title \o Head(answers).body.raw
         \o IssueText(Tail(answers))

InitParse ==
  /\ cmd = "parser_issue" /\ pc = "split" /\ err = NoError
  /\ store = <<>> /\ store0 = <<>>
  /\ template \in Templates \cup ReferenceTemplates
  /\ submitted \in Submissions
  /\ template \in ReferenceTemplates \/ Len(submitted) <= 1
  /\ issue_formatted = IssueText(submitted)
  /\ sections = <<>> /\ args = <<>> /\ record = None
  /\ IdleBatch /\ IdleArt /\ IdleList

\* the strip forgotten
clean_paragraph_unstripped(paragraph) == paragraph

clean_paragraph(paragraph) == Strip(paragraph)

clean_section(section) ==
  LET paragraphs == Split(section, NL)
      kept == SelectSeq(Tail(paragraphs), LAMBDA paragraph : paragraph # <<>>)
      body == Join(SP, [i \in 1..Len(kept) |-> clean_paragraph(kept[i])])
      title == Strip(paragraphs[1])
  IN [key |-> title, value |-> StrVal(body)]

parse_split ==
  /\ cmd = "parser_issue" /\ pc = "split"
  /\ LET segments == Tail(Split(issue_formatted, H3))
     IN sections' = DictFromPairs(
                      [i \in 1..Len(segments) |-> clean_section(segments[i])])
  /\ pc' = "resolve"
  /\ UNCHANGED <<cmd, err, store, store0, batchVars, artVars, listVars,
                 template, submitted, issue_formatted, args, record>>

IsField(form) == form.type # "markdown"
WellFormed(form) == "label" \in DOMAIN form /\ "id" \in DOMAIN form

label_to_id(forms) ==
  LET fields == SelectSeq(forms, IsField)
  IN DictFromPairs([i \in 1..Len(fields) |->
                      [key |-> fields[i].label, value |-> fields[i].id]])

section_titles_to_ids(forms, secs) ==
  DictFromPairs([i \in 1..Len(secs) |->
                   [key |-> DictGet(label_to_id(forms), secs[i].key),
                    value |-> secs[i].value]])

parse_resolve ==
  /\ cmd = "parser_issue" /\ pc = "resolve"
  /\ IF /\ \A i \in 1..Len(template) :
             IsField(template[i]) => WellFormed(template[i])
        /\ \A i \in 1..Len(sections) :
             DictHas(label_to_id(template), sections[i].key)
     THEN /\ args' = section_titles_to_ids(template, sections)
          /\ pc' = "placeholder"
          /\ UNCHANGED err
     ELSE /\ err' = "KeyError" /\ pc' = "done"
          /\ UNCHANGED args
  /\ UNCHANGED <<cmd, store, store0, batchVars, artVars, listVars,
                 template, submitted, issue_formatted, sections, record>>

no_response(value) == IF value = StrVal(Sentinel) THEN None ELSE value

parse_placeholder ==
  /\ cmd = "parser_issue" /\ pc = "placeholder"
  /\ args' = [i \in 1..Len(args) |->
                [key |-> args[i].key, value |-> no_response(args[i].value)]]
  /\ pc' = "labels"
  /\ UNCHANGED <<cmd, err, store, store0, batchVars, artVars, listVars,
                 template, submitted, issue_formatted, sections, record>>

split_labels(value) ==
  LET pieces == Split(value.v, COMMA)
  IN ListVal([i \in 1..Len(pieces) |-> Strip(pieces[i])])

parse_labels ==
  /\ cmd = "parser_issue" /\ pc = "labels"
  /\ IF DictHas(args, "labels")
     THEN /\ args' = DictSet(args, "labels",
                       IF DictGet(args, "labels") = None
                       THEN ListVal(<<>>)
                       ELSE split_labels(DictGet(args, "labels")))
          /\ pc' = "construct"
          /\ UNCHANGED err
     ELSE /\ err' = "KeyError" /\ pc' = "done"
          /\ UNCHANGED args
  /\ UNCHANGED <<cmd, store, store0, batchVars, artVars, listVars,
                 template, submitted, issue_formatted, sections, record>>

\* Repository(**args)
Required(a, k) == DictHas(a, k) /\ DictGet(a, k) # None
Optional(a, k) == IF DictHas(a, k) THEN DictGet(a, k) ELSE None
RepositoryFromArgs(a) ==
  [name |-> DictGet(a, "name"), url |-> DictGet(a, "url"),
   labels |-> DictGet(a, "labels"), website |-> Optional(a, "website"),
   tier |-> "Community", stars |-> None, tests_results |-> <<>>]

parse_construct ==
  /\ cmd = "parser_issue" /\ pc = "construct"
  /\ IF Required(args, "name") /\ Required(args, "url")
     THEN record' = RepositoryFromArgs(args) /\ UNCHANGED err
     ELSE err' = "ValidationError" /\ UNCHANGED record
  /\ pc' = "done"
  /\ UNCHANGED <<cmd, store, store0, batchVars, artVars, listVars,
                 template, submitted, issue_formatted, sections, args>>

Init == InitStars \/ InitBadges \/ InitArtifacts \/ InitList \/ InitParse

Next ==
  \/ update_stars_tier
  \/ update_stars_next_tier
  \/ update_stars_bad_response
  \/ update_stars_ok_response
  \/ update_stars_return
  \/ update_badges_tier
  \/ update_badges_next_tier
  \/ update_badges_project
  \/ update_badges_return
  \/ add_results_malformed
  \/ add_results_artifact
  \/ add_results_return
  \/ list_repos_repo
  \/ list_repos_return
  \/ parse_split
  \/ parse_resolve
  \/ parse_placeholder
  \/ parse_labels
  \/ parse_construct

Spec == Init /\ [][Next]_vars

\* ------------------------------------------------------------------------
\* Claims
\* ------------------------------------------------------------------------
IsBatch == cmd \in {"update_stars", "update_badges"}

\* the record of the store the request requests_log[j] was made for
RecordOf(j) == store0[IndexOfUrl(store0, requests_log[j].url)]

\* the {owner}/{repo} identifier of a repository url
Identifier(url) ==
  LET p == CHOOSE p \in Owners \X Repos :
             \E slash \in BOOLEAN : MkUrl(p[1], p[2], slash) = url
  IN <<p[1], SLASH, p[2]>>

\* C1: in update_stars a non-success response never raises out of the batch,
\* the stars of the record it was for are as they were before the batch, and
\* at the end of the batch every record of the store has been queried.
C1_BadResponseSkipsRecord ==
  cmd = "update_stars" =>
    /\ err = NoError
    /\ \A j \in 1..Len(requests_log) :
         ~requests_log[j].ok =>
           LET i == IndexOfUrl(store0, requests_log[j].url)
           IN store[i].stars = store0[i].stars
    /\ pc = "done" =>
         \A i \in 1..Len(store0) :
           \E j \in 1..Len(requests_log) :
             requests_log[j].url = store0[i].url

C1_Witness ==
  /\ cmd = "update_stars" /\ pc = "done"
  /\ \E j, k \in 1..Len(requests_log) :
       /\ j < k
       /\ ~requests_log[j].ok /\ requests_log[k].ok
       /\ RecordOf(j).stars = IntVal(3)
       /\ store[IndexOfUrl(store0, requests_log[j].url)].stars = IntVal(3)

\* C2: when some artifact is malformed the batch ends with a decode error and
\* no test result of the batch has been appended: the store is as it was
\* before the batch.
C2_AllOrNothing ==
  (/\ cmd = "add_results_from_artifacts" /\ pc = "done"
   /\ \E k \in 1..Len(artifacts) : artifacts[k] = Malformed)
  => (err = "JSONDecodeError" /\ store = store0)

AnyStandardFailure(results) ==
  \E i \in 1..Len(results) :
    results[i].test_type = "standard" /\ results[i].passed = FALSE

\* C3: the color of every badge requested by update_badges is gray if and
\* only if some entry of the record's tests_results is a failed standard
\* test, and blueviolet otherwise, wherever that entry stands.
C3_AnyFailureWins ==
  cmd = "update_badges" =>
    \A j \in 1..Len(requests_log) :
      /\ requests_log[j].request.color \in {"gray", "blueviolet"}
      /\ requests_log[j].request.color = "gray"
           <=> AnyStandardFailure(RecordOf(j).tests_results)
      /\ requests_log[j].ok =>
           \E f \in badges :
             /\ f.file = RecordOf(j).name
             /\ f.content.badge.color = requests_log[j].request.color

C3_Witness ==
  /\ cmd = "update_badges"
  /\ \E j \in 1..Len(requests_log) :
       /\ RecordOf(j).tests_results =
            << [test_type |-> "standard", passed |-> FALSE],
               [test_type |-> "standard", passed |-> TRUE] >>
       /\ requests_log[j].request.color = "gray"
  /\ \E j \in 1..Len(requests_log) :
       /\ RecordOf(j).tests_results =
            << [test_type |-> "other", passed |-> FALSE] >>
       /\ requests_log[j].request.color = "blueviolet"

\* C4 as stated: update_badges never raises, and a record whose badge fetch
\* did not succeed has no badge file written for it.
C4_FailedFetchSkipsRecord ==
  cmd = "update_badges" =>
    /\ err = NoError
    /\ \A j \in 1..Len(requests_log) :
         ~requests_log[j].ok =>
           ~\E f \in badges : f.file = RecordOf(j).name

\* C5: list_repos_for_testing returns the {owner}/{repo} identifiers of
\* exactly the records with skip_tests false, in store order.
C5_TestedReposInStoreOrder ==
  (cmd = "list_repos_for_testing" /\ pc = "done") =>
    LET tested == SelectSeq(store, LAMBDA r : r.skip_tests = FALSE)
    IN output = json_dumps([i \in 1..Len(tested) |->
                              Identifier(tested[i].url)])

C5_Witness ==
  /\ cmd = "list_repos_for_testing" /\ pc = "done"
  /\ Len(store) = 3
  /\ ~store[1].skip_tests /\ store[2].skip_tests /\ ~store[3].skip_tests
  /\ store[1].url = MkUrl("x", "foo", TRUE)
  /\ output = <<"[", "\"", "x", SLASH, "foo", "\"", ", ",
                "\"", "x", SLASH, "bar", "\"", "]">>

AnswerTo(title) ==
  LET j == CHOOSE j \in 1..Len(submitted) :
             /\ submitted[j].title = title
             /\ \A m \in (j + 1)..Len(submitted) : submitted[m].title # title
  IN submitted[j].body.answer

Answered(title) == \E j \in 1..Len(submitted) : submitted[j].title = title

Labelled(title) ==
  \E i \in 1..Len(template) :
    IsField(template[i]) /\ WellFormed(template[i])
      /\ template[i].label = title

\* the labels a labels answer stands for: its comma-separated pieces in
\* order, each trimmed, the empty ones dropped
LabelsOf(answer) ==
  LET pieces == Split(answer, COMMA)
  IN SelectSeq([i \in 1..Len(pieces) |-> Strip(pieces[i])],
               LAMBDA piece : piece # <<>>)

\* C6 as stated: for an issue that answers Name and Repository and has only
\* sections the template knows, parsing succeeds and the labels of the record
\* are the trimmed non-empty pieces of the labels answer, or the empty
\* sequence when the answer is the placeholder or there is no labels section.
C6_LabelsAlwaysSequence ==
  (/\ cmd = "parser_issue" /\ pc = "done"
   /\ template \in ReferenceTemplates
   /\ \A j \in 1..Len(submitted) : Labelled(submitted[j].title)
   /\ Answered(<<"Name">>) /\ AnswerTo(<<"Name">>) # Sentinel
   /\ Answered(<<"Repository">>) /\ AnswerTo(<<"Repository">>) # Sentinel)
  => /\ err = NoError
     /\ record.labels =
          ListVal(IF Answered(<<"Labels">>) /\ AnswerTo(<<"Labels">>) # Sentinel
                  THEN LabelsOf(AnswerTo(<<"Labels">>))
                  ELSE <<>>)

DuplicateLabel ==
  \E i, j \in 1..Len(template) :
    /\ i # j
    /\ IsField(template[i]) /\ WellFormed(template[i])
    /\ IsField(template[j]) /\ WellFormed(template[j])
    /\ template[i].label = template[j].label

\* C7 as stated: once the template has been resolved, a template in which two
\* fields share a label has made the parse fail with TemplateFormatError.
C7_DuplicateLabelRejected ==
  (/\ cmd = "parser_issue" /\ pc \notin {"split", "resolve"}
   /\ DuplicateLabel)
  => err = "TemplateFormatError"

\* the value the placeholder step gives the answer of a section
Replaced(title) ==
  IF AnswerTo(title) = Sentinel THEN None ELSE StrVal(AnswerTo(title))

C9_UpdateKeyedByOwnUrl ==
  [][(/\ cmd = "update_stars"
      /\ Len(requests_log') = Len(requests_log) + 1
      /\ requests_log'[Len(requests_log')].ok)
     => /\ err' = NoError
        /\ store' = [store EXCEPT
                       ![IndexOfUrl(store, projects[proj_idx].url)].stars =
                         requests_log'[Len(requests_log')].content]]_vars

C9_Witness ==
  /\ cmd = "update_stars"
  /\ \E i, j \in 1..Len(store) :
       /\ i # j
       /\ store[j].url = store[i].url \o <<SLASH>>
       /\ store0[j].stars = None /\ store[j].stars = IntVal(7)
       /\ store0[i].stars = IntVal(3) /\ store[i].stars = IntVal(3)
       /\ \A k \in 1..Len(requests_log) : requests_log[k].url # store[i].url

\* C10: update_stars and update_badges process no record twice, a record of
\* an earlier tier of Tier.all() before any record of a later tier, records
\* of one tier in store order, and by the end of the batch every record.
C10_TierMajorOrder ==
  IsBatch =>
    /\ \A j, k \in 1..Len(requests_log) :
         j < k =>
           LET a == IndexOfUrl(store0, requests_log[j].url)
               b == IndexOfUrl(store0, requests_log[k].url)
           IN \/ TierIndex(store0[a].tier) < TierIndex(store0[b].tier)
              \/ (store0[a].tier = store0[b].tier /\ a < b)
    /\ pc = "done" =>
         \A i \in 1..Len(store0) :
           \E j \in 1..Len(requests_log) :
             requests_log[j].url = store0[i].url

C10_Witness ==
  /\ IsBatch /\ pc = "done"
  /\ Len(store0) >= 2
  /\ store0[1].tier = "Community" /\ store0[2].tier = "Main"
  /\ requests_log[1].url = store0[2].url
  /\ requests_log[Len(requests_log)].url = store0[1].url
====
